---- MODULE Spec2Model ----
(***************************************************************************)
(* TunnelModel of remoteExplorerService.ts: three maps keyed by the remote *)
(* port identifier (forwarded, published, candidates), the mutators        *)
(* forward / name / close, the lookup address, and the three emitters      *)
(* onForwardPort / onPortName / onClosePort.                               *)
(*                                                                         *)
(* JavaScript values are modelled as follows.                              *)
(*  - a string is a TLA+ string; `undefined` in a string-typed slot is the *)
(*    string undefined, which no input set contains as a real value;       *)
(*  - a Tunnel is a record whose DOMAIN is the set of properties the       *)
(*    object literal in the source sets; reading a property that is not in *)
(*    the DOMAIN yields undefined (getField);                              *)
(*  - a URI is the record URIparse builds from the text handed to          *)
(*    URI.parse; `undefined` in a URI-typed slot is undefinedURI;          *)
(*  - a Map is a function whose DOMAIN is the key set.                     *)
(* Emitter.fire is synchronous; every fire is appended to the log `events` *)
(* with the payload's value at the time of the fire.                       *)
(*                                                                         *)
(* Four specifications share the variables, each moving its own:           *)
(*  - Spec: the TunnelModel methods, one step per call;                    *)
(*  - SpecNested: forward / name / close statement by statement, with      *)
(*    listeners that call the model again during a fire;                   *)
(*  - SpecService: the targetType setter of RemoteExplorerService;         *)
(*  - SpecLauncher: the launcher script (install chain, startServer).      *)
(***************************************************************************)
EXTENDS Integers, Sequences, FiniteSets, TLC

\* Number of calls made on the model in one behaviour.
MaxOps == 3

undefined == "<undefined>"

undefinedURI == [undefined |-> TRUE]

\* URI.parse(text): the URI value is identified by the text it was parsed from.
URIparse(text) == [external |-> text]

\* String(v) as `+` applies it to the right operand of a string concatenation.
toString(v) == IF v = undefined THEN "undefined" ELSE v

\* Inputs of the calls.
\* "3000" and "4000" are forwarded by the constructor, "4500" is published,
\* "5000" is a candidate.
Remotes == {"3000", "4000", "4500", "5000"}

HostArgs == {undefinedURI, URIparse("http://otherHost")}

LocalArgs == {undefined, "4001"}

NameArgs == {undefined, "X"}

NewNames == {"X", "Y"}

VARIABLES
    forwarded,   \* Map<string, Tunnel>
    published,   \* Map<string, Tunnel>
    candidates,  \* Map<string, Tunnel>
    events,      \* every Emitter.fire so far, in order
    fired,       \* the fires of the last call
    call,        \* the last call and its arguments
    ret,         \* what the last call returned
    prev,        \* `forwarded` as it was when the last call started
    nops         \* number of calls so far

\* RemoteExplorerService
VARIABLES
    targetType,  \* _targetType
    storage,     \* what storageService holds, per scope and key
    effects,     \* every storageService.store and every fire, in order
    lastSet,     \* the last assignment to targetType and what it found and did
    nsets        \* number of assignments so far

\* Calls that are running: a listener called by Emitter.fire may call the
\* model again before fire returns.
VARIABLES
    stack,       \* the mutator calls in progress, the innermost last
    observed     \* what a listener found in the model at each delivery

\* The launcher script
VARIABLES
    lpc,               \* how far the script is
    argv,              \* the flags on process.argv
    executableExists,  \* fs.existsSync(node)
    PORT,
    trace,             \* the calls of the install chain and of startServer, in order
    failed,            \* the step that failed, "none" while none has
    launched,          \* startServer's flag
    scheduled,         \* number of setTimeout calls so far
    opened,            \* number of opn calls so far
    stdout             \* the chunks proc.stdout has emitted

tunnelVars == <<forwarded, published, candidates, events, fired, call, ret, prev, nops>>

serviceVars == <<targetType, storage, effects, lastSet, nsets>>

launcherVars ==
    <<lpc, argv, executableExists, PORT, trace, failed, launched, scheduled, opened, stdout>>

nestingVars == <<stack, observed>>

vars == <<tunnelVars, serviceVars, launcherVars, nestingVars>>

\* t.f for a property that may be missing from the object.
getField(t, f) == IF f \in DOMAIN t THEN t[f] ELSE undefined

\* t.f = v on an object (adds the property when it is missing).
setField(t, f, v) == [g \in DOMAIN t \cup {f} |-> IF g = f THEN v ELSE t[g]]

\* Map.prototype.has / get / set / delete.
has(m, k) == k \in DOMAIN m

get(m, k) == m[k]

set(m, k, v) == [j \in DOMAIN m \cup {k} |-> IF j = k THEN v ELSE m[j]]

delete(m, k) == [j \in DOMAIN m \ {k} |-> m[j]]

\* The maps the constructor builds.
forwardedSeed ==
    set(set(<<>>, "3000",
            [description |-> "one description", local |-> "3000", remote |-> "3000",
             closeable |-> TRUE, host |-> URIparse("http://fakeHost")]),
        "4000",
        [local |-> "4001", remote |-> "4000", name |-> "Process Port",
         closeable |-> TRUE, host |-> URIparse("http://fakeHost")])

publishedSeed ==
    set(set(<<>>, "3500",
            [description |-> "one description", local |-> "3500", remote |-> "3500",
             name |-> "My App", host |-> URIparse("http://fakeHost")]),
        "4500",
        [description |-> "two description", local |-> "4501", remote |-> "4500",
         host |-> URIparse("http://fakeHost")])

candidatesSeed ==
    set(set(<<>>, "5000",
            [description |-> "node.js /anArg", remote |-> "5000",
             host |-> URIparse("http://fakeHost")]),
        "5500",
        [remote |-> "5500", host |-> URIparse("http://fakeHost")])

\* Number of assignments to targetType in one behaviour.
MaxSets == 4

\* REMOTE_EXPLORER_TYPE_KEY
explorerTypeKey == "remote.explorerType"

\* Values assigned to targetType.
TargetTypes == {"", "tunnel", "ssh", "wsl"}

\* StorageScope
StorageScopes == {"GLOBAL", "WORKSPACE"}

\* RemoteExplorerService as constructed, with nothing stored yet.
serviceInit ==
    /\ targetType = ""
    /\ storage = [scope \in StorageScopes |-> <<>>]
    /\ effects = <<>>
    /\ lastSet = [arg |-> undefined, old |-> "", oldStorage |-> [scope \in StorageScopes |-> <<>>],
                  did |-> <<>>]
    /\ nsets = 0

\* Number of chunks the server writes to stdout in one behaviour.
MaxChunks == 3

\* The script before it runs.
launcherInit ==
    /\ lpc = "idle"
    /\ argv = [selfhost |-> FALSE, update |-> FALSE, port |-> undefined]
    /\ executableExists = FALSE
    /\ PORT = undefined
    /\ trace = <<>>
    /\ failed = "none"
    /\ launched = FALSE
    /\ scheduled = 0
    /\ opened = 0
    /\ stdout = <<>>

\* Number of mutator calls in one behaviour with nested calls.
MaxCalls == 4

\* Number of mutator calls in progress at once.
MaxDepth == 3

\* No call is running.
nestingInit ==
    /\ stack = <<>>
    /\ observed = <<>>

Init ==
    /\ nestingInit
    /\ launcherInit
    /\ serviceInit
    /\ forwarded = forwardedSeed
    /\ published = publishedSeed
    /\ candidates = candidatesSeed
    /\ events = <<>>
    /\ fired = <<>>
    /\ call = [op |-> "constructor"]
    /\ ret = undefinedURI
    /\ prev = forwardedSeed
    /\ nops = 0

\* `host` stored as supplied, without the default.
defaultHostMissing(host) == host

\* if (!host) { host = URI.parse('http://fakeHost'); }
defaultHost(host) == IF host = undefinedURI THEN URIparse("http://fakeHost") ELSE host

\* `local` stored as supplied, without the `?? remote`.
defaultLocalMissing(local, remote) == local

\* local ?? remote
defaultLocal(local, remote) == IF local = undefined THEN remote ELSE local

\* newForward without `closeable: true`.
newForwardNotCloseable(remote, host, local, name) ==
    [remote |-> remote,
     local |-> defaultLocal(local, remote),
     name |-> name,
     host |-> defaultHost(host)]

\* newForward with the local value in `remote`.
newForwardRemoteIsLocal(remote, host, local, name) ==
    [remote |-> defaultLocal(local, "0"),
     local |-> defaultLocal(local, remote),
     name |-> name,
     closeable |-> TRUE,
     host |-> defaultHost(host)]

\* The object literal newForward.
newForward(remote, host, local, name) ==
    [remote |-> remote,
     local |-> defaultLocal(local, remote),
     name |-> name,
     closeable |-> TRUE,
     host |-> defaultHost(host)]

\* Fires put in front of the log instead of behind it.
calledNewestFirst(c, result, fires) ==
    /\ nops < MaxOps
    /\ nops' = nops + 1
    /\ call' = c
    /\ ret' = result
    /\ fired' = fires
    /\ events' = fires \o events
    /\ prev' = forwarded
    /\ UNCHANGED <<serviceVars, launcherVars, nestingVars>>

\* What a call leaves behind besides its effect on the maps.
called(c, result, fires) ==
    /\ nops < MaxOps
    /\ nops' = nops + 1
    /\ call' = c
    /\ ret' = result
    /\ fired' = fires
    /\ events' = events \o fires
    /\ prev' = forwarded
    /\ UNCHANGED <<serviceVars, launcherVars, nestingVars>>

\* forward() taking the entry it creates out of candidates.
forwardPromotes(remote, host, local, name) ==
    /\ IF ~has(forwarded, remote)
       THEN /\ forwarded' = set(forwarded, remote, newForward(remote, host, local, name))
            /\ candidates' = delete(candidates, remote)
            /\ called([op |-> "forward", remote |-> remote, host |-> host,
                       local |-> local, name |-> name],
                      undefinedURI,
                      <<[channel |-> "onForwardPort",
                         tunnel |-> newForward(remote, host, local, name)]>>)
       ELSE /\ forwarded' = forwarded
            /\ candidates' = candidates
            /\ called([op |-> "forward", remote |-> remote, host |-> host,
                       local |-> local, name |-> name],
                      undefinedURI, <<>>)
    /\ UNCHANGED published

\* forward() without the has() test: the entry is overwritten and the event
\* fired on every call.
forwardOverwrites(remote, host, local, name) ==
    /\ forwarded' = set(forwarded, remote, newForward(remote, host, local, name))
    /\ called([op |-> "forward", remote |-> remote, host |-> host,
               local |-> local, name |-> name],
              undefinedURI,
              <<[channel |-> "onForwardPort",
                 tunnel |-> newForward(remote, host, local, name)]>>)
    /\ UNCHANGED <<published, candidates>>

forward(remote, host, local, name) ==
    /\ IF ~has(forwarded, remote)
       THEN /\ forwarded' = set(forwarded, remote, newForward(remote, host, local, name))
            /\ called([op |-> "forward", remote |-> remote, host |-> host,
                       local |-> local, name |-> name],
                      undefinedURI,
                      <<[channel |-> "onForwardPort",
                         tunnel |-> newForward(remote, host, local, name)]>>)
       ELSE /\ forwarded' = forwarded
            /\ called([op |-> "forward", remote |-> remote, host |-> host,
                       local |-> local, name |-> name],
                      undefinedURI, <<>>)
    /\ UNCHANGED <<published, candidates>>

\* name() storing a fresh object instead of updating the stored one.
nameReplacesEntry(remote, newName) ==
    /\ IF has(forwarded, remote)
       THEN /\ forwarded' = set(forwarded, remote,
                                [remote |-> remote, name |-> newName])
            /\ called([op |-> "name", remote |-> remote, name |-> newName],
                      undefinedURI,
                      <<[channel |-> "onPortName", remote |-> remote]>>)
       ELSE /\ forwarded' = forwarded
            /\ called([op |-> "name", remote |-> remote, name |-> newName],
                      undefinedURI, <<>>)
    /\ UNCHANGED <<published, candidates>>

name(remote, newName) ==
    /\ IF has(forwarded, remote)
       THEN /\ forwarded' = set(forwarded, remote,
                                setField(get(forwarded, remote), "name", newName))
            /\ called([op |-> "name", remote |-> remote, name |-> newName],
                      undefinedURI,
                      <<[channel |-> "onPortName", remote |-> remote]>>)
       ELSE /\ forwarded' = forwarded
            /\ called([op |-> "name", remote |-> remote, name |-> newName],
                      undefinedURI, <<>>)
    /\ UNCHANGED <<published, candidates>>

\* close() firing without removing the entry.
closeKeepsEntry(remote) ==
    /\ IF has(forwarded, remote)
       THEN /\ forwarded' = forwarded
            /\ called([op |-> "close", remote |-> remote], undefinedURI,
                      <<[channel |-> "onClosePort", remote |-> remote]>>)
       ELSE /\ forwarded' = forwarded
            /\ called([op |-> "close", remote |-> remote], undefinedURI, <<>>)
    /\ UNCHANGED <<published, candidates>>

\* close() without the has() test: delete, then fire, whatever the key.
closeAlwaysFires(remote) ==
    /\ forwarded' = delete(forwarded, remote)
    /\ called([op |-> "close", remote |-> remote], undefinedURI,
              <<[channel |-> "onClosePort", remote |-> remote]>>)
    /\ UNCHANGED <<published, candidates>>

close(remote) ==
    /\ IF has(forwarded, remote)
       THEN /\ forwarded' = delete(forwarded, remote)
            /\ called([op |-> "close", remote |-> remote], undefinedURI,
                      <<[channel |-> "onClosePort", remote |-> remote]>>)
       ELSE /\ forwarded' = forwarded
            /\ called([op |-> "close", remote |-> remote], undefinedURI, <<>>)
    /\ UNCHANGED <<published, candidates>>

\* address() looking in published before forwarded.
addressTunnelPublishedFirst(fwd, pub, remote) ==
    IF has(pub, remote) THEN {get(pub, remote)}
    ELSE IF has(fwd, remote) THEN {get(fwd, remote)}
    ELSE {}

\* address() falling back to candidates after forwarded and published.
addressTunnelCandidates(fwd, pub, remote) ==
    IF has(fwd, remote) THEN {get(fwd, remote)}
    ELSE IF has(pub, remote) THEN {get(pub, remote)}
    ELSE IF has(candidates, remote) THEN {get(candidates, remote)}
    ELSE {}

\* The tunnel address() picks: forwarded first, then published.
addressTunnel(fwd, pub, remote) ==
    IF has(fwd, remote) THEN {get(fwd, remote)}
    ELSE IF has(pub, remote) THEN {get(pub, remote)}
    ELSE {}

\* address(remote) evaluated on the maps fwd and pub.
addressOf(fwd, pub, remote) ==
    IF addressTunnel(fwd, pub, remote) # {}
    THEN LET tunnel == CHOOSE t \in addressTunnel(fwd, pub, remote) : TRUE
         IN URIparse("http://localhost:" \o toString(getField(tunnel, "local")))
    ELSE undefinedURI

address(remote) ==
    /\ called([op |-> "address", remote |-> remote],
              addressOf(forwarded, published, remote), <<>>)
    /\ UNCHANGED <<forwarded, published, candidates>>

Next ==
    \/ \E remote \in Remotes, host \in HostArgs, local \in LocalArgs, nm \in NameArgs :
          forward(remote, host, local, nm)
    \/ \E remote \in Remotes, newName \in NewNames : name(remote, newName)
    \/ \E remote \in Remotes : close(remote)
    \/ \E remote \in Remotes : address(remote)

Spec == Init /\ [][Next]_vars

(***************************************************************************)
(* The mutators statement by statement.  JavaScript runs a call to its end *)
(* before the next one starts, except that Emitter.fire calls the          *)
(* listeners before it returns and a listener may call forward, name or    *)
(* close: these nested calls are the only ones that can fall between the   *)
(* statements of a mutator.                                                *)
(***************************************************************************)

\* Remote identifiers and arguments of the calls, nested ones included.
NestedRemotes == {"4000", "5000"}

\* forward() firing before it stores the entry.
forwardFiresFirst == <<"fire", "set">>

\* The statements of forward's if-branch.
forwardBody == <<"set", "fire">>

\* The statements of name's if-branch.
nameBody == <<"assign", "fire">>

\* close() firing before it deletes the entry.
closeFiresFirst == <<"fire", "delete">>

\* The statements of close's if-branch.
closeBody == <<"delete", "fire">>

bodyOf(op) ==
    IF op = "forward" THEN forwardBody
    ELSE IF op = "name" THEN nameBody
    ELSE closeBody

\* The test each mutator starts with.
testOf(op, remote) ==
    IF op = "forward" THEN ~has(forwarded, remote) ELSE has(forwarded, remote)

\* What the call f fires.
eventOf(f) ==
    IF f.op = "forward"
    THEN [channel |-> "onForwardPort",
          tunnel |-> newForward(f.remote, undefinedURI, f.local, f.name)]
    ELSE IF f.op = "name"
    THEN [channel |-> "onPortName", remote |-> f.remote]
    ELSE [channel |-> "onClosePort", remote |-> f.remote]

\* What a listener finds when the event of the call f is delivered to it.
observation(f) ==
    [channel |-> eventOf(f).channel,
     remote |-> f.remote,
     newName |-> f.name,
     has |-> has(forwarded, f.remote),
     address |-> addressOf(forwarded, published, f.remote),
     name |-> IF has(forwarded, f.remote)
              THEN getField(forwarded[f.remote], "name") ELSE undefined]

\* The stack with its innermost call replaced by f, or without it when f has
\* run all its statements and its listeners have returned.
continue(f) ==
    IF f.pc > Len(bodyOf(f.op)) /\ ~f.listening
    THEN SubSeq(stack, 1, Len(stack) - 1)
    ELSE [stack EXCEPT ![Len(stack)] = f]

\* A mutator is called, by a caller when no call is running or by a listener
\* during a fire; it returns at once when its test fails.
begin(op, remote, local, newName) ==
    /\ nops < MaxCalls
    /\ \/ stack = <<>>
       \/ /\ stack # <<>>
          /\ stack[Len(stack)].listening
          /\ Len(stack) < MaxDepth
    /\ nops' = nops + 1
    /\ stack' = IF testOf(op, remote)
                THEN Append(stack, [op |-> op, remote |-> remote, local |-> local,
                                    name |-> newName, pc |-> 1, listening |-> FALSE])
                ELSE stack
    /\ call' = [op |-> op, remote |-> remote, local |-> local, name |-> newName]
    /\ UNCHANGED <<forwarded, published, candidates, events, fired, ret, prev>>
    /\ UNCHANGED <<observed, serviceVars, launcherVars>>

\* The innermost call runs its next statement.  The assignment of name throws
\* when the entry is gone, which ends the call.
statement ==
    /\ stack # <<>>
    /\ LET f == stack[Len(stack)]
           stmt == bodyOf(f.op)[f.pc]
           next == [f EXCEPT !.pc = f.pc + 1]
       IN /\ ~f.listening
          /\ f.pc <= Len(bodyOf(f.op))
          /\ IF stmt = "fire"
             THEN /\ events' = Append(events, eventOf(f))
                  /\ observed' = Append(observed, observation(f))
                  /\ stack' = continue([next EXCEPT !.listening = TRUE])
                  /\ forwarded' = forwarded
             ELSE /\ UNCHANGED <<events, observed>>
                  /\ IF stmt = "set"
                     THEN /\ forwarded' = set(forwarded, f.remote, eventOf(f).tunnel)
                          /\ stack' = continue(next)
                     ELSE IF stmt = "delete"
                     THEN /\ forwarded' = delete(forwarded, f.remote)
                          /\ stack' = continue(next)
                     ELSE IF has(forwarded, f.remote)
                     THEN /\ forwarded' = set(forwarded, f.remote,
                                              setField(get(forwarded, f.remote),
                                                       "name", f.name))
                          /\ stack' = continue(next)
                     ELSE /\ forwarded' = forwarded
                          /\ stack' = SubSeq(stack, 1, Len(stack) - 1)
    /\ UNCHANGED <<published, candidates, fired, call, ret, prev, nops>>
    /\ UNCHANGED <<serviceVars, launcherVars>>

\* The listeners of the innermost call's fire have returned.
listenersReturn ==
    /\ stack # <<>>
    /\ stack[Len(stack)].listening
    /\ stack' = continue([stack[Len(stack)] EXCEPT !.listening = FALSE])
    /\ UNCHANGED <<tunnelVars, observed, serviceVars, launcherVars>>

NextNested ==
    \/ \E remote \in NestedRemotes, local \in LocalArgs :
          begin("forward", remote, local, undefined)
    \/ \E remote \in NestedRemotes, newName \in NewNames :
          begin("name", remote, undefined, newName)
    \/ \E remote \in NestedRemotes : begin("close", remote, undefined, undefined)
    \/ statement
    \/ listenersReturn

SpecNested == Init /\ [][NextNested]_vars

(***************************************************************************)
(* RemoteExplorerService.targetType                                        *)
(***************************************************************************)

\* storageService.store(key, value, scope)
store(st, key, value, scope) == [st EXCEPT ![scope] = set(st[scope], key, value)]

\* The statements of the setter's if-branch, as effects in order.
setEffects(value) ==
    <<[kind |-> "store", key |-> explorerTypeKey, value |-> value, scope |-> "WORKSPACE"],
      [kind |-> "store", key |-> explorerTypeKey, value |-> value, scope |-> "GLOBAL"],
      [kind |-> "fire", channel |-> "onDidChangeTargetType", value |-> value]>>

\* The setter's test, always true: every assignment stores and fires.
targetTypeChangesAlways(old, value) == TRUE

\* this._targetType !== name
targetTypeChanges(old, value) == old # value

\* set targetType(name)
setTargetType(value) ==
    /\ nsets < MaxSets
    /\ nsets' = nsets + 1
    /\ IF targetTypeChanges(targetType, value)
       THEN /\ targetType' = value
            /\ storage' = store(store(storage, explorerTypeKey, value, "WORKSPACE"),
                                explorerTypeKey, value, "GLOBAL")
            /\ effects' = effects \o setEffects(value)
            /\ lastSet' = [arg |-> value, old |-> targetType, oldStorage |-> storage,
                           did |-> setEffects(value)]
       ELSE /\ UNCHANGED <<targetType, storage, effects>>
            /\ lastSet' = [arg |-> value, old |-> targetType, oldStorage |-> storage,
                           did |-> <<>>]
    /\ UNCHANGED <<tunnelVars, launcherVars, nestingVars>>

NextService == \E value \in TargetTypes : setTargetType(value)

SpecService == Init /\ [][NextService]_vars

(***************************************************************************)
(* The launcher script.  A text is a sequence of tokens; the tokens of a   *)
(* stdout chunk are the server's ready message up to the port, a port, and *)
(* any other output.                                                       *)
(***************************************************************************)

listening == "Extension host agent listening on "

\* `Extension host agent listening on ${PORT}`
readyMessage(port) == <<listening, toString(port)>>

\* String.prototype.indexOf, counted in tokens.
indexOf(text, pattern) ==
    LET at == {i \in 0..(Len(text) - Len(pattern)) :
                  SubSeq(text, i + 1, i + Len(pattern)) = pattern}
    IN IF at = {} THEN -1 ELSE CHOOSE i \in at : \A j \in at : i <= j

\* The flags the script is run with.
Argvs == [selfhost : BOOLEAN, update : BOOLEAN, port : {undefined, "8080"}]

\* What the server writes to stdout.
Chunks ==
    {<<"log">>, <<listening>>, <<"9777">>,
     <<listening, "9777">>, <<listening, "9888">>, <<"log", listening, "8080">>}

\* let PORT = SELFHOST ? 9777 : 9888, then the value after --port.
portConfig(a) ==
    IF a.port # undefined THEN a.port ELSE IF a.selfhost THEN "9777" ELSE "9888"

\* SELFHOST && (UPDATE || !executableExists)
installs(a, exists) == a.selfhost /\ (a.update \/ ~exists)

\* The script's body up to waitForUpdate.then: the configuration, and rimraf
\* started when a server is to be replaced.
run(a, exists) ==
    /\ lpc = "idle"
    /\ argv' = a
    /\ executableExists' = exists
    /\ PORT' = portConfig(a)
    /\ IF installs(a, exists)
       THEN IF exists
            THEN lpc' = "rimraf" /\ trace' = <<"rimraf">>
            ELSE lpc' = "download" /\ trace' = <<>>
       ELSE lpc' = "resolved" /\ trace' = <<>>
    /\ UNCHANGED <<failed, launched, scheduled, opened, stdout>>
    /\ UNCHANGED <<tunnelVars, serviceVars, nestingVars>>

\* util.promisify(rimraf)(serverLocation) settles.
rimrafSettles(ok) ==
    /\ lpc = "rimraf"
    /\ IF ok
       THEN lpc' = "download" /\ trace' = Append(trace, "rimraf.resolved") /\ failed' = failed
       ELSE lpc' = "rejected" /\ trace' = trace /\ failed' = "rimraf"
    /\ UNCHANGED <<argv, executableExists, PORT, launched, scheduled, opened, stdout>>
    /\ UNCHANGED <<tunnelVars, serviceVars, nestingVars>>

\* waitForRimRaf.then(() => download(..)): the first https.get is sent.
download ==
    /\ lpc = "download"
    /\ lpc' = "get1"
    /\ trace' = Append(trace, "download")
    /\ UNCHANGED <<argv, executableExists, PORT, failed, launched, scheduled, opened, stdout>>
    /\ UNCHANGED <<tunnelVars, serviceVars, nestingVars>>

\* The first request is answered, or fails: the request has no 'error'
\* listener, so a failure is an uncaught exception that ends the process.
response(answered, statusCode, location) ==
    /\ lpc = "get1"
    /\ IF ~answered
       THEN lpc' = "crashed" /\ failed' = "download"
       ELSE IF statusCode # 302 \/ ~location
            THEN lpc' = "rejected" /\ failed' = "download"
            ELSE lpc' = "piping" /\ failed' = failed
    /\ UNCHANGED <<argv, executableExists, PORT, trace, launched, scheduled, opened, stdout>>
    /\ UNCHANGED <<tunnelVars, serviceVars, nestingVars>>

\* The second request, to the redirect's location: it fails (no 'error'
\* listener either), or its response is piped to the archive and the write
\* stream closes, or the stream or the response emits 'error'.  The status of
\* this response is not read.
piped(event) ==
    /\ lpc = "piping"
    /\ IF event = "close"
       THEN lpc' = "extract" /\ trace' = Append(trace, "download.resolved") /\ failed' = failed
       ELSE IF event = "request error"
            THEN lpc' = "crashed" /\ trace' = trace /\ failed' = "download"
            ELSE lpc' = "rejected" /\ trace' = trace /\ failed' = "download"
    /\ UNCHANGED <<argv, executableExists, PORT, launched, scheduled, opened, stdout>>
    /\ UNCHANGED <<tunnelVars, serviceVars, nestingVars>>

\* download(..).then(() => { unzip(..); fs.unlinkSync(..); }): spawnSync
\* reports a failed extraction in its result, which is dropped; unlinkSync
\* throws when it fails.
extract(unlinked) ==
    /\ lpc = "extract"
    /\ trace' = trace \o <<"unzip", "unlinkSync">>
    /\ IF unlinked
       THEN lpc' = "resolved" /\ failed' = failed
       ELSE lpc' = "rejected" /\ failed' = "unlinkSync"
    /\ UNCHANGED <<argv, executableExists, PORT, launched, scheduled, opened, stdout>>
    /\ UNCHANGED <<tunnelVars, serviceVars, nestingVars>>

\* waitForUpdate.then(startServer, startServer)
startsServerAlways(settled) == TRUE

\* waitForUpdate.then(() => startServer(), console.error): which callback runs.
startsServer(settled) == settled = "resolved"

\* waitForUpdate settles: startServer spawns the server, or console.error
\* prints the reason and the script is over.
waitForUpdateSettles ==
    /\ lpc \in {"resolved", "rejected"}
    /\ IF startsServer(lpc)
       THEN lpc' = "running" /\ trace' = Append(trace, "startServer")
       ELSE lpc' = "exited" /\ trace' = trace
    /\ launched' = FALSE
    /\ UNCHANGED <<argv, executableExists, PORT, failed, scheduled, opened, stdout>>
    /\ UNCHANGED <<tunnelVars, serviceVars, nestingVars>>

\* The test of the stdout listener without `!launched`.
opensBrowserEachTime(isLaunched, data) == indexOf(data, readyMessage(PORT)) >= 0

\* !launched && data.toString().indexOf(`... listening on ${PORT}`) >= 0
opensBrowser(isLaunched, data) ==
    ~isLaunched /\ indexOf(data, readyMessage(PORT)) >= 0

\* proc.stdout.on("data", ..)
stdoutData(data) ==
    /\ lpc = "running"
    /\ Len(stdout) < MaxChunks
    /\ stdout' = Append(stdout, data)
    /\ IF opensBrowser(launched, data)
       THEN launched' = TRUE /\ scheduled' = scheduled + 1
       ELSE UNCHANGED <<launched, scheduled>>
    /\ UNCHANGED <<lpc, argv, executableExists, PORT, trace, failed, opened>>
    /\ UNCHANGED <<tunnelVars, serviceVars, nestingVars>>

\* The setTimeout callback: opn(url, ..).
timeout ==
    /\ lpc = "running"
    /\ opened < scheduled
    /\ opened' = opened + 1
    /\ UNCHANGED <<lpc, argv, executableExists, PORT, trace, failed, launched, scheduled, stdout>>
    /\ UNCHANGED <<tunnelVars, serviceVars, nestingVars>>

NextLauncher ==
    \/ \E a \in Argvs, exists \in BOOLEAN : run(a, exists)
    \/ \E ok \in BOOLEAN : rimrafSettles(ok)
    \/ download
    \/ \E answered \in BOOLEAN, statusCode \in {200, 302}, location \in BOOLEAN :
          response(answered, statusCode, location)
    \/ \E event \in {"close", "outStream error", "res error", "request error"} :
          piped(event)
    \/ \E unlinked \in BOOLEAN : extract(unlinked)
    \/ waitForUpdateSettles
    \/ \E data \in Chunks : stdoutData(data)
    \/ timeout

SpecLauncher == Init /\ [][NextLauncher]_vars

(***************************************************************************)
(* forward on a key that is already forwarded                              *)
(***************************************************************************)

\* C1: forward(r, host, local, name) for an r that is already a key of
\* forwarded changes nothing: forwarded (key set and every field of every
\* entry, that of r included) is what it was before the call, published and
\* candidates are untouched, and no event is fired on any channel.
C1_ForwardExistingNoOp ==
    (call.op = "forward" /\ has(prev, call.remote)) =>
        /\ forwarded = prev
        /\ published = publishedSeed
        /\ candidates = candidatesSeed
        /\ fired = <<>>

\* forward("4000", otherHost, "4001", "X") was called while "4000" was
\* forwarded with another host and name.
C1_Witness ==
    /\ call.op = "forward"
    /\ call.remote = "4000"
    /\ has(prev, "4000")
    /\ call.host # undefinedURI
    /\ call.name = "X"
    /\ getField(forwarded["4000"], "name") = "Process Port"

(***************************************************************************)
(* forward on a key that is not forwarded                                  *)
(***************************************************************************)

\* The local value forward(call) is to store.
suppliedLocal(c) == IF c.local = undefined THEN c.remote ELSE c.local

\* C2: forward(r, ..) for an r that is not a key of forwarded inserts exactly
\* one entry, under r, with closeable = true and local = the supplied local
\* (r when none is supplied), leaves every other entry alone, fires exactly
\* one event, on onForwardPort, whose Tunnel has remote = r, and address(r)
\* right after is the localhost address of that local value.
C2_ForwardNewInserts ==
    (call.op = "forward" /\ ~has(prev, call.remote)) =>
        /\ DOMAIN forwarded = DOMAIN prev \cup {call.remote}
        /\ \A k \in DOMAIN prev : forwarded[k] = prev[k]
        /\ "closeable" \in DOMAIN forwarded[call.remote]
        /\ forwarded[call.remote].closeable = TRUE
        /\ getField(forwarded[call.remote], "local") = suppliedLocal(call)
        /\ Len(fired) = 1
        /\ fired[1].channel = "onForwardPort"
        /\ fired[1].tunnel.remote = call.remote
        /\ fired[1].tunnel = forwarded[call.remote]
        /\ addressOf(forwarded, published, call.remote)
             = URIparse("http://localhost:" \o suppliedLocal(call))

\* forward("5000") without a local inserted the entry.
C2_Witness ==
    /\ call.op = "forward"
    /\ call.remote = "5000"
    /\ call.local = undefined
    /\ ~has(prev, "5000")
    /\ has(forwarded, "5000")
    /\ Len(fired) = 1

(***************************************************************************)
(* forward twice in a row                                                  *)
(***************************************************************************)

\* The step is a second forward of the remote the last call forwarded.
forwardAgain ==
    /\ call.op = "forward"
    /\ nops' = nops + 1
    /\ call'.op = "forward"
    /\ call'.remote = call.remote

\* C3 as stated: two forward(r) calls in a row leave one entry for r and
\* fire exactly one onForwardPort event between them, from every reachable
\* state, the one the constructor leaves included.
C3_Original ==
    [][forwardAgain =>
          /\ has(forwarded', call.remote)
          /\ Len(fired) + Len(fired') = 1]_vars

\* C3 amended: two forward(r) calls in a row leave one entry for r, the one
\* the first call left; the second call fires nothing, and the first fires
\* one onForwardPort event for r when r was not forwarded before it and
\* nothing when it was (as "3000" and "4000" are after construction).
C3_ForwardTwice ==
    [][forwardAgain =>
          /\ has(forwarded', call.remote)
          /\ forwarded' = forwarded
          /\ fired' = <<>>
          /\ Len(fired) = (IF has(prev, call.remote) THEN 0 ELSE 1)
          /\ \A i \in 1..Len(fired) :
                /\ fired[i].channel = "onForwardPort"
                /\ fired[i].tunnel.remote = call.remote]_vars

\* After construction, forward("5000") ran twice: the only event is the first
\* call's.
C3_Witness ==
    /\ nops = 2
    /\ call.op = "forward"
    /\ call.remote = "5000"
    /\ fired = <<>>
    /\ Len(events) = 1
    /\ events[1].channel = "onForwardPort"
    /\ events[1].tunnel.remote = "5000"

(***************************************************************************)
(* forward("4000") without a local                                         *)
(***************************************************************************)

\* A forward("4000") call with no local supplied has just returned.
forward4000 ==
    /\ call.op = "forward"
    /\ call.remote = "4000"
    /\ call.local = undefined

\* C4 as stated: on a newly constructed model, forward("4000") with no local
\* leaves the entry for "4000" with local = "4000".
C4_Original ==
    (nops = 1 /\ forward4000) => getField(forwarded["4000"], "local") = "4000"

\* C4 amended: forward("4000") with no local leaves the entry for "4000" with
\* local = "4000" when "4000" was not forwarded at the call; when it was, the
\* entry keeps the local it had, which on a newly constructed model is the
\* constructor's "4001".
C4_Forward4000Local ==
    /\ (forward4000 /\ ~has(prev, "4000")) =>
           getField(forwarded["4000"], "local") = "4000"
    /\ (forward4000 /\ has(prev, "4000")) =>
           getField(forwarded["4000"], "local") = getField(prev["4000"], "local")
    /\ (nops = 1 /\ forward4000) => getField(forwarded["4000"], "local") = "4001"

\* "4000" was closed and then forwarded again without a local.
C4_Witness ==
    /\ forward4000
    /\ ~has(prev, "4000")
    /\ getField(forwarded["4000"], "local") = "4000"

(***************************************************************************)
(* close                                                                   *)
(***************************************************************************)

\* C5: close(r) for an r that is a key of forwarded removes r (and nothing
\* else) from forwarded and fires exactly one event, on onClosePort, with
\* payload r; address(r) right after is undefined, unless r is a key of
\* published, and then it is the localhost address of the published entry's
\* local value.
C5_CloseRemoves ==
    (call.op = "close" /\ has(prev, call.remote)) =>
        /\ ~has(forwarded, call.remote)
        /\ DOMAIN forwarded = DOMAIN prev \ {call.remote}
        /\ \A k \in DOMAIN forwarded : forwarded[k] = prev[k]
        /\ fired = <<[channel |-> "onClosePort", remote |-> call.remote]>>
        /\ addressOf(forwarded, published, call.remote)
             = (IF has(published, call.remote)
                THEN URIparse("http://localhost:"
                              \o getField(published[call.remote], "local"))
                ELSE undefinedURI)

\* "4500", published by the constructor, was forwarded and then closed.
C5_Witness ==
    /\ call.op = "close"
    /\ call.remote = "4500"
    /\ has(prev, "4500")
    /\ has(published, "4500")
    /\ ~has(forwarded, "4500")
    /\ addressOf(forwarded, published, "4500") = URIparse("http://localhost:4501")

(***************************************************************************)
(* name                                                                    *)
(***************************************************************************)

\* C6: name(r, X) for an r that is a key of forwarded sets the name of the
\* entry for r to X and fires exactly one event, on onPortName, with payload
\* r; the entry's other properties (remote, local, host, description,
\* closeable), every other entry, the key set and address(r) are what they
\* were before the call.
C6_NameOnlyRenames ==
    (call.op = "name" /\ has(prev, call.remote)) =>
        /\ DOMAIN forwarded = DOMAIN prev
        /\ \A k \in DOMAIN prev \ {call.remote} : forwarded[k] = prev[k]
        /\ getField(forwarded[call.remote], "name") = call.name
        /\ DOMAIN forwarded[call.remote] = DOMAIN prev[call.remote] \cup {"name"}
        /\ \A f \in DOMAIN prev[call.remote] \ {"name"} :
              forwarded[call.remote][f] = prev[call.remote][f]
        /\ fired = <<[channel |-> "onPortName", remote |-> call.remote]>>
        /\ addressOf(forwarded, published, call.remote)
             = addressOf(prev, published, call.remote)

\* name("3000", "Y") on the constructor's entry, which has a description and
\* no name.
C6_Witness ==
    /\ call.op = "name"
    /\ call.remote = "3000"
    /\ has(prev, "3000")
    /\ getField(prev["3000"], "name") = undefined
    /\ getField(prev["3000"], "description") = "one description"
    /\ getField(forwarded["3000"], "name") = "Y"

\* C7: name(r, X) and close(r) for an r that is not a key of forwarded (r only
\* published, r only a candidate, r closed earlier) return normally and are
\* no-ops: no event on any channel, and the three maps are unchanged.
C7_UnknownKeyNoOp ==
    (call.op \in {"name", "close"} /\ ~has(prev, call.remote)) =>
        /\ forwarded = prev
        /\ published = publishedSeed
        /\ candidates = candidatesSeed
        /\ fired = <<>>
        /\ ret = undefinedURI

\* close("4000") was called after "4000", forwarded by the constructor, had
\* been closed.
C7_Witness ==
    /\ call.op = "close"
    /\ call.remote = "4000"
    /\ ~has(prev, "4000")
    /\ \E i \in 1..Len(events) :
          events[i] = [channel |-> "onClosePort", remote |-> "4000"]
    /\ fired = <<>>

(***************************************************************************)
(* address                                                                 *)
(***************************************************************************)

\* C8: address(r) looks in forwarded before published: for an r that is a key
\* of both, address(r) is the localhost address of the forwarded entry's local
\* value, in every state and as the value an address(r) call returns.
C8_AddressForwardedFirst ==
    /\ \A r \in DOMAIN forwarded \cap DOMAIN published :
          addressOf(forwarded, published, r)
            = URIparse("http://localhost:" \o getField(forwarded[r], "local"))
    /\ (call.op = "address" /\ has(forwarded, call.remote)
                            /\ has(published, call.remote)) =>
          ret = URIparse("http://localhost:"
                         \o getField(forwarded[call.remote], "local"))

\* address("4500") with "4500" forwarded to 4500 and published at 4501.
C8_Witness ==
    /\ call.op = "address"
    /\ call.remote = "4500"
    /\ has(forwarded, "4500")
    /\ has(published, "4500")
    /\ getField(forwarded["4500"], "local") = "4500"
    /\ getField(published["4500"], "local") = "4501"
    /\ ret = URIparse("http://localhost:4500")

\* C9: an address(r) call changes no map and fires no event, and it returns
\* undefined exactly when r is a key of neither forwarded nor published; an r
\* that is only a key of candidates resolves to undefined.
C9_AddressAbsent ==
    (call.op = "address") =>
        /\ forwarded = prev
        /\ published = publishedSeed
        /\ candidates = candidatesSeed
        /\ fired = <<>>
        /\ (ret = undefinedURI) <=>
              (~has(forwarded, call.remote) /\ ~has(published, call.remote))

\* address("5000") with "5000" a key of candidates only.
C9_Witness ==
    /\ call.op = "address"
    /\ call.remote = "5000"
    /\ has(candidates, "5000")
    /\ ~has(forwarded, "5000")
    /\ ~has(published, "5000")
    /\ ret = undefinedURI

(***************************************************************************)
(* every forwarded entry has a local and a host                            *)
(***************************************************************************)

\* C10: in every reachable state every Tunnel in forwarded has a local value
\* and a host value that are not undefined.
C10_ForwardedLocalAndHost ==
    \A k \in DOMAIN forwarded :
        /\ "local" \in DOMAIN forwarded[k]
        /\ forwarded[k].local # undefined
        /\ "host" \in DOMAIN forwarded[k]
        /\ forwarded[k].host # undefinedURI

\* An entry inserted by a forward call that supplied neither host nor local.
C10_Witness ==
    /\ call.op = "forward"
    /\ ~has(prev, call.remote)
    /\ has(forwarded, call.remote)
    /\ call.host = undefinedURI
    /\ call.local = undefined

(***************************************************************************)
(* published and candidates                                                *)
(***************************************************************************)

\* C11: no forward, name, close or address call changes published or
\* candidates: both are what the constructor built, key sets and entries; and
\* a key enters forwarded only by a forward call for that key.
C11_PublishedCandidatesFrozen ==
    /\ published = publishedSeed
    /\ candidates = candidatesSeed
    /\ DOMAIN forwarded \ DOMAIN prev
         \subseteq (IF call.op = "forward" THEN {call.remote} ELSE {})

\* The candidate "5000" and the published "4500" are both forwarded, and both
\* are still where the constructor put them.
C11_Witness ==
    /\ has(forwarded, "5000")
    /\ has(forwarded, "4500")
    /\ has(candidates, "5000")
    /\ has(published, "4500")
    /\ call.op = "forward"

(***************************************************************************)
(* order of the events                                                     *)
(***************************************************************************)

\* The remote identifier an event is about.
eventRemote(e) == IF e.channel = "onForwardPort" THEN e.tunnel.remote ELSE e.remote

\* The channel a mutator fires on.
channelOf(op) ==
    IF op = "forward" THEN "onForwardPort"
    ELSE IF op = "name" THEN "onPortName"
    ELSE "onClosePort"

\* The step is a call that mutates forwarded: a forward of a key that is not
\* there, or a name or close of one that is.
mutates ==
    /\ nops' = nops + 1
    /\ \/ call'.op = "forward" /\ ~has(forwarded, call'.remote)
       \/ call'.op \in {"name", "close"} /\ has(forwarded, call'.remote)

isCloseable(t) == "closeable" \in DOMAIN t /\ t.closeable = TRUE

\* C14: in every reachable state every entry of forwarded has closeable =
\* true and no entry of published or candidates has.
C14_CloseableIffForwarded ==
    /\ \A k \in DOMAIN forwarded : isCloseable(forwarded[k])
    /\ \A k \in DOMAIN published : ~isCloseable(published[k])
    /\ \A k \in DOMAIN candidates : ~isCloseable(candidates[k])

\* An entry made by forward and then renamed.
C14_Witness ==
    /\ call.op = "name"
    /\ call.remote = "4500"
    /\ has(forwarded, "4500")
    /\ getField(forwarded["4500"], "name") = call.name
    /\ has(published, "4500")

(***************************************************************************)
(* onForwardPort and onClosePort alternate                                 *)
(***************************************************************************)

\* Every remote identifier the model can hold.
allRemotes ==
    Remotes \cup DOMAIN forwardedSeed \cup DOMAIN publishedSeed \cup DOMAIN candidatesSeed

\* The onForwardPort and onClosePort events of r, in the order fired.
openClose(r) ==
    SelectSeq(events,
              LAMBDA e : /\ e.channel \in {"onForwardPort", "onClosePort"}
                         /\ eventRemote(e) = r)

\* C15: for each remote identifier r the onForwardPort and onClosePort events
\* of r alternate, and r is a key of forwarded exactly when the last of them
\* is an onForwardPort event or, when there is none yet, when the constructor
\* put r in forwarded.
C15_ForwardCloseAlternate ==
    \A r \in allRemotes :
        /\ \A i \in 1..(Len(openClose(r)) - 1) :
              openClose(r)[i].channel # openClose(r)[i + 1].channel
        /\ has(forwarded, r) <=>
              (IF openClose(r) = <<>>
               THEN has(forwardedSeed, r)
               ELSE openClose(r)[Len(openClose(r))].channel = "onForwardPort")

\* "4000" was closed, forwarded and closed again.
C15_Witness ==
    /\ Len(openClose("4000")) = 3
    /\ openClose("4000")[1].channel = "onClosePort"
    /\ openClose("4000")[2].channel = "onForwardPort"
    /\ openClose("4000")[3].channel = "onClosePort"
    /\ ~has(forwarded, "4000")

(***************************************************************************)
(* keys and remote fields                                                  *)
(***************************************************************************)

\* C17: in every reachable state each entry of forwarded, published and
\* candidates is stored under the key that is its remote field, and the
\* Tunnel an onForwardPort event carries is the entry stored under its remote
\* when the forward call returns.
C17_KeyIsRemote ==
    /\ \A k \in DOMAIN forwarded : getField(forwarded[k], "remote") = k
    /\ \A k \in DOMAIN published : getField(published[k], "remote") = k
    /\ \A k \in DOMAIN candidates : getField(candidates[k], "remote") = k
    /\ (call.op = "forward" /\ fired # <<>>) =>
          /\ has(forwarded, fired[1].tunnel.remote)
          /\ forwarded[fired[1].tunnel.remote] = fired[1].tunnel

\* forward("5000", .., "4001", ..) stored the entry under "5000".
C17_Witness ==
    /\ call.op = "forward"
    /\ call.remote = "5000"
    /\ call.local = "4001"
    /\ fired # <<>>
    /\ has(forwarded, "5000")
    /\ getField(forwarded["5000"], "local") = "4001"

(***************************************************************************)
(* targetType                                                              *)
(***************************************************************************)

\* The values the onDidChangeTargetType events carry, in the order fired.
targetTypeFires == SelectSeq(effects, LAMBDA e : e.kind = "fire")

\* C18: assigning targetType the value it has stores nothing and fires
\* nothing; assigning another value makes it the value, stores it under the
\* explorer-type key in the WORKSPACE scope and then in the GLOBAL scope, and
\* then fires one onDidChangeTargetType event with it; no two consecutive
\* events carry the same value.
C18_TargetTypeSetter ==
    /\ (nsets > 0 /\ lastSet.arg = lastSet.old) =>
          /\ lastSet.did = <<>>
          /\ targetType = lastSet.old
          /\ storage = lastSet.oldStorage
    /\ (nsets > 0 /\ lastSet.arg # lastSet.old) =>
          /\ targetType = lastSet.arg
          /\ Len(lastSet.did) = 3
          /\ lastSet.did[1] = [kind |-> "store", key |-> explorerTypeKey,
                               value |-> lastSet.arg, scope |-> "WORKSPACE"]
          /\ lastSet.did[2] = [kind |-> "store", key |-> explorerTypeKey,
                               value |-> lastSet.arg, scope |-> "GLOBAL"]
          /\ lastSet.did[3] = [kind |-> "fire", channel |-> "onDidChangeTargetType",
                               value |-> lastSet.arg]
          /\ storage["WORKSPACE"][explorerTypeKey] = lastSet.arg
          /\ storage["GLOBAL"][explorerTypeKey] = lastSet.arg
    /\ \A i \in 1..(Len(targetTypeFires) - 1) :
          targetTypeFires[i].value # targetTypeFires[i + 1].value

\* targetType was set to "ssh", to "ssh" again, and then to another value.
C18_Witness ==
    /\ nsets = 3
    /\ Len(targetTypeFires) = 2
    /\ targetTypeFires[1].value = "ssh"
    /\ lastSet.old = "ssh"
    /\ lastSet.arg # "ssh"
    /\ Len(effects) = 6

(***************************************************************************)
(* The launcher opens the browser once                                     *)
(***************************************************************************)

\* A chunk with the ready message for PORT has arrived.
readySeen == \E i \in 1..Len(stdout) : indexOf(stdout[i], readyMessage(PORT)) >= 0

\* C19: in one run of the launcher the browser is opened at most once: an
\* open is scheduled when the first stdout chunk with the ready message for
\* PORT arrives, none is scheduled before such a chunk, and no later chunk,
\* with or without the message, schedules another.
C19_BrowserOpenedOnce ==
    /\ scheduled = (IF readySeen THEN 1 ELSE 0)
    /\ opened <= scheduled
    /\ launched <=> readySeen

\* A chunk without the message, then two with it; the one open has happened.
C19_Witness ==
    /\ Len(stdout) = 3
    /\ indexOf(stdout[1], readyMessage(PORT)) < 0
    /\ indexOf(stdout[2], readyMessage(PORT)) >= 0
    /\ indexOf(stdout[3], readyMessage(PORT)) >= 0
    /\ scheduled = 1
    /\ opened = 1

(***************************************************************************)
(* The launcher installs before it starts the server                       *)
(***************************************************************************)

\* The steps of an install or update, in order.
installSteps ==
    (IF executableExists THEN <<"rimraf", "rimraf.resolved">> ELSE <<>>)
      \o <<"download", "download.resolved", "unzip", "unlinkSync", "startServer">>

C13_TestAndMutationAtomic ==
    \A r \in allRemotes :
        /\ \A i \in 1..(Len(openClose(r)) - 1) :
              openClose(r)[i].channel # openClose(r)[i + 1].channel
        /\ (stack = <<>> /\ openClose(r) # <<>>) =>
              (has(forwarded, r) <=>
                  openClose(r)[Len(openClose(r))].channel = "onForwardPort")

\* A listener of forward("5000")'s event has called forward("5000") again
\* while the fire was still running.
C13_Witness ==
    /\ Len(stack) = 1
    /\ stack[1].op = "forward"
    /\ stack[1].remote = "5000"
    /\ stack[1].listening
    /\ nops = 2
    /\ call.op = "forward"
    /\ call.remote = "5000"
    /\ Len(events) = 1
    /\ has(forwarded, "5000")

(***************************************************************************)
(* The state change comes before the event                                 *)
(***************************************************************************)

\* C16: each event is fired after its state change: a listener that receives
\* onForwardPort for r finds r a key of forwarded and address(r) defined, one
\* that receives onPortName for r finds the entry with the new name, and one
\* that receives onClosePort for r finds r no key of forwarded.
C16_EventAfterChange ==
    \A i \in 1..Len(observed) :
        /\ observed[i].channel = "onForwardPort" =>
              /\ observed[i].has
              /\ observed[i].address # undefinedURI
        /\ observed[i].channel = "onPortName" =>
              /\ observed[i].has
              /\ observed[i].name = observed[i].newName
        /\ observed[i].channel = "onClosePort" => ~observed[i].has

\* The three events of "5000" were delivered, the later ones for calls made
\* by a listener of the earlier ones.
C16_Witness ==
    /\ Len(observed) = 3
    /\ \A i \in 1..3 : observed[i].remote = "5000"
    /\ observed[1].channel = "onForwardPort"
    /\ observed[2].channel = "onPortName"
    /\ observed[3].channel = "onClosePort"
    /\ Len(stack) = 2

====
